---- MODULE Spec2Model ----
(***************************************************************************)
(* Layout-based table extraction (src/extraction_algorithm.py).            *)
(*                                                                         *)
(* A token (a "word" of pdfplumber's extract_words) is a record            *)
(*     [x0, x1, top, text]                                                  *)
(* with integer coordinates. A row of sorted_rows is the pair               *)
(* (y, row_words) of the code, written [y |-> .., words |-> ..].            *)
(* Values the code computes as floats (np.mean, "/ 2") are kept exact as    *)
(* fractions <<numerator, denominator>> with a positive denominator.        *)
(*                                                                         *)
(* Three specifications share the module:                                  *)
(*   SpecRows  detect_rows_with_consistent_spacing, one loop step at a time *)
(*   SpecGaps  detect_vertical_gaps on one region                           *)
(*   Spec      extract_table_with_column_detection / extract_table_spatial  *)
(*             over a whole document, page by page                          *)
(***************************************************************************)
EXTENDS Integers, Sequences, FiniteSets, TLC

VARIABLES
    \* detect_rows_with_consistent_spacing (SpecRows)
    words,          \* the argument: tokens in emission order
    scan,           \* number of tokens the for loop has consumed
    rows_dict,      \* the defaultdict, as its items in insertion order
    sorted_rows,    \* the returned list
    row_pc,         \* "scan" | "done"
    \* detect_vertical_gaps (SpecGaps)
    region_rows,    \* the argument sorted_rows of detect_vertical_gaps
    page_width,     \* the argument page_width
    separators,     \* the local list separators
    gap_pc,         \* "scan" | "fallback" | "position" | "done"
    \* the extraction of one document (Spec)
    strategy,       \* "enhanced" | "legacy": which function app.py calls
    pdf,            \* the document: [opens, pages]
    pc,             \* "open" | "page" | "tables" | "done"
    page_num,       \* enumerate(pdf.pages, 1)
    table_regions,  \* identify_table_regions(page) of the current page
    table_idx,      \* enumerate(table_regions)
    all_tables,     \* the result list
    raised,         \* 0, or the page number at which the except clause ran
                    \* (-1: pdfplumber.open itself raised)
    \* analyze_row_spacing (SpecSpacing)
    spacing_rows,   \* the argument sorted_rows of analyze_row_spacing
    spacing_regions, \* the returned list of tuples
    spacing_pc,     \* "call" | "done"
    \* one document's expander in app.py's main (SpecUI)
    algorithm,      \* the selectbox: "enhanced" | "legacy"
    pdf_file,       \* the document the file at pdf_files[pdf_idx] holds
    session_idx,    \* st.session_state[f"table_idx_{unique_key}"], -1: key absent
    tables,         \* the list the last script run extracted
    shown           \* what the last script run ended with:
                    \* "table" | "warning" | "IndexError"

rowVars == <<words, scan, rows_dict, sorted_rows, row_pc>>
gapVars == <<region_rows, page_width, separators, gap_pc>>
docVars == <<strategy, pdf, pc, page_num, table_regions, table_idx, all_tables, raised>>
spacingVars == <<spacing_rows, spacing_regions, spacing_pc>>
uiVars == <<algorithm, pdf_file, session_idx, tables, shown>>
vars == <<words, scan, rows_dict, sorted_rows, row_pc,
          region_rows, page_width, separators, gap_pc,
          strategy, pdf, pc, page_num, table_regions, table_idx, all_tables, raised,
          spacing_rows, spacing_regions, spacing_pc,
          algorithm, pdf_file, session_idx, tables, shown>>

(***************************************************************************)
(* Bounds of the model.                                                    *)
(***************************************************************************)
MaxWords == 4        \* tokens given to the row grouper in SpecRows
MaxRegionRows == 3   \* rows of a region in SpecGaps
MaxPages == 2        \* pages of a multi-page document in Spec
MaxRows == 5         \* rows of a generated page in Spec
RatioRows == 10      \* rows of the regions that meet the fallback's 30% exactly
MaxSpacingRows == 5  \* rows given to analyze_row_spacing in SpecSpacing

(***************************************************************************)
(* Program constants.                                                      *)
(***************************************************************************)
y_tolerance == 3         \* detect_rows_with_consistent_spacing's default
LargeGap == 200          \* analyze_row_spacing: "if spacing > 200"
MinWords == 10           \* identify_table_regions: "len(words) < 10"
x_resolution == 2        \* detect_vertical_gaps
EdgeMargin == 30         \* "30 < separator < page_width - 30"
ClusterGap == 30         \* "x - current_cluster[-1] < 30"
tolerance == 10          \* validate_column_alignment's default

(***************************************************************************)
(* Generic helpers.                                                        *)
(***************************************************************************)
\* One token of page.extract_words.
Word(x0, x1, top, text) == [x0 |-> x0, x1 |-> x1, top |-> top, text |-> text]

Abs(n) == IF n < 0 THEN -n ELSE n

Range(s) == {s[i] : i \in 1..Len(s)}

SeqsUpTo(S, n) == UNION {[1..k -> S] : k \in 0..n}

RECURSIVE SumSeq(_)
SumSeq(s) == IF s = <<>> THEN 0 ELSE Head(s) + SumSeq(Tail(s))

RECURSIVE Concat(_)
Concat(ss) == IF ss = <<>> THEN <<>> ELSE Head(ss) \o Concat(Tail(ss))

SetMin(S) == CHOOSE m \in S : \A n \in S : m <= n
SetMax(S) == CHOOSE m \in S : \A n \in S : m >= n

\* Python's sorted(.., key=..): stable, ascending. The argument is the list
\* paired with its keys: records [k |-> key, v |-> element].
RECURSIVE SortPairs(_)
SortPairs(s) ==
    IF s = <<>> THEN <<>>
    ELSE LET m == SetMin({s[i].k : i \in 1..Len(s)})
             first == CHOOSE i \in 1..Len(s) :
                          /\ s[i].k = m
                          /\ \A j \in 1..(i - 1) : s[j].k # m
             rest == [j \in 1..(Len(s) - 1) |-> IF j < first THEN s[j] ELSE s[j + 1]]
         IN <<s[first]>> \o SortPairs(rest)

\* sorted(row_words, key=lambda w: w['x0'])
SortedByX0(ws) ==
    LET p == SortPairs([i \in 1..Len(ws) |-> [k |-> ws[i].x0, v |-> ws[i]]])
    IN [i \in 1..Len(ws) |-> p[i].v]

(***************************************************************************)
(* detect_rows_with_consistent_spacing                                     *)
(***************************************************************************)
\* One iteration of "for word in words": the first key of rows_dict, in
\* insertion order, within y_tolerance of the word's top takes the word;
\* otherwise the word opens a row keyed by its own top.
RowStepLossy(rd, word) ==
    LET hits == {i \in 1..Len(rd) : Abs(word.top - rd[i].y) <= y_tolerance}
    IN IF hits # {}
       THEN [rd EXCEPT ![SetMin(hits)].words = <<word>>]
       ELSE Append(rd, [y |-> word.top, words |-> <<word>>])

RowStepNearest(rd, word) ==
    LET hits == {i \in 1..Len(rd) : Abs(word.top - rd[i].y) <= y_tolerance}
        nearest == {i \in hits : \A j \in hits :
                        Abs(word.top - rd[i].y) <= Abs(word.top - rd[j].y)}
    IN IF hits # {}
       THEN [rd EXCEPT ![SetMin(nearest)].words = Append(@, word)]
       ELSE Append(rd, [y |-> word.top, words |-> <<word>>])

RowStep(rd, word) ==
    LET hits == {i \in 1..Len(rd) : Abs(word.top - rd[i].y) <= y_tolerance}
    IN IF hits # {}
       THEN [rd EXCEPT ![SetMin(hits)].words = Append(@, word)]
       ELSE Append(rd, [y |-> word.top, words |-> <<word>>])

\* "sorted_rows = [(y, rows_dict[y]) for y in sorted(rows_dict.keys())]"
SortRowsUnsorted(rd) == rd

SortRows(rd) ==
    LET p == SortPairs([i \in 1..Len(rd) |-> [k |-> rd[i].y, v |-> rd[i]]])
    IN [i \in 1..Len(rd) |-> p[i].v]

RECURSIVE GroupAll(_, _)
GroupAll(rd, ws) == IF ws = <<>> THEN rd ELSE GroupAll(RowStep(rd, Head(ws)), Tail(ws))

\* The whole function, as identify_table_regions calls it.
DetectRows(ws) == IF ws = <<>> THEN <<>> ELSE SortRows(GroupAll(<<>>, ws))

(***************************************************************************)
(* Fractions: <<n, d>> with d > 0 stands for n / d.                        *)
(***************************************************************************)
Frac(n) == <<n, 1>>
FracLT(a, b) == a[1] * b[2] < b[1] * a[2]
FracEq(a, b) == a[1] * b[2] = b[1] * a[2]
\* (a + b) / 2
FracMid(a, b) == <<a[1] * b[2] + b[1] * a[2], 2 * a[2] * b[2]>>

\* "30 < separator < page_width - 30"
InsideEdges(sep, pw) == FracLT(Frac(EdgeMargin), sep) /\ FracLT(sep, Frac(pw - EdgeMargin))

\* Python's int(v / x_resolution) * x_resolution for a coordinate v >= 0.
Snap(v) == (v \div x_resolution) * x_resolution

\* All words of a list of rows, row by row.
RECURSIVE AllWords(_)
AllWords(rows) == IF rows = <<>> THEN <<>> ELSE Head(rows).words \o AllWords(Tail(rows))

(***************************************************************************)
(* detect_column_separators_by_position                                    *)
(***************************************************************************)
\* The clustering loop over x_sorted[1:]: cur is current_cluster, acc the
\* clusters closed so far (before the "at least 10% of rows" test).
RECURSIVE ClusterScan(_, _, _)
ClusterScan(xs, cur, acc) ==
    IF xs = <<>> THEN Append(acc, cur)
    ELSE IF Head(xs) - cur[Len(cur)] < ClusterGap
         THEN ClusterScan(Tail(xs), Append(cur, Head(xs)), acc)
         ELSE ClusterScan(Tail(xs), <<Head(xs)>>, Append(acc, cur))

\* "len(current_cluster) >= len(sorted_rows) * 0.1"
ClusterKept(cluster, nrows) == 10 * Len(cluster) >= nrows

\* clusters: np.mean of every kept cluster, as a fraction.
ClusterMeans(rows) ==
    LET xw == AllWords(rows)
        xs == SortPairs([i \in 1..Len(xw) |-> [k |-> xw[i].x0, v |-> xw[i].x0]])
        x_sorted == [i \in 1..Len(xs) |-> xs[i].v]
        all == ClusterScan(Tail(x_sorted), <<Head(x_sorted)>>, <<>>)
        kept == SelectSeq(all, LAMBDA c : ClusterKept(c, Len(rows)))
    IN [i \in 1..Len(kept) |-> <<SumSeq(kept[i]), Len(kept[i])>>]

\* The final loop: the midpoint of every two adjacent clusters, edges excluded.
RECURSIVE MidSeparators(_, _, _)
MidSeparators(clusters, i, pw) ==
    IF i >= Len(clusters) THEN <<>>
    ELSE LET separator == FracMid(clusters[i], clusters[i + 1])
         IN (IF InsideEdges(separator, pw) THEN <<separator>> ELSE <<>>)
            \o MidSeparators(clusters, i + 1, pw)

DetectByPositionNoEdges(rows, pw) ==
    IF AllWords(rows) = <<>> THEN <<>>
    ELSE LET clusters == ClusterMeans(rows)
         IN [i \in 1..(Len(clusters) - 1) |-> FracMid(clusters[i], clusters[i + 1])]

DetectColumnSeparatorsByPosition(rows, pw) ==
    IF AllWords(rows) = <<>> THEN <<>>
    ELSE MidSeparators(ClusterMeans(rows), 1, pw)

(***************************************************************************)
(* detect_vertical_gaps                                                    *)
(***************************************************************************)
\* The set "occupied" of one row.
Occupied(row) ==
    UNION {{x \in Snap(row.words[i].x0)..Snap(row.words[i].x1) : x % x_resolution = 0}
           : i \in 1..Len(row.words)}

\* range(content_start, content_end, x_resolution)
ContentRange(rows) ==
    LET xw == AllWords(rows)
        all_x_positions == {xw[i].x0 : i \in 1..Len(xw)} \cup {xw[i].x1 : i \in 1..Len(xw)}
        content_start == SetMin(all_x_positions)
        content_end == SetMax(all_x_positions)
    IN {x \in content_start..(content_end - 1) : (x - content_start) % x_resolution = 0}

\* gap_positions.get(x, 0) after the per-row loop: range is ContentRange of
\* the rows and occ[i] the set "occupied" of row i.
GapCount(range, occ, x) ==
    IF x \in range
    THEN Cardinality({i \in DOMAIN occ : x \notin occ[i]})
    ELSE 0

\* "gap_count >= persistence_threshold", persistence_threshold = 0.15 * total_rows
Persistent(gap_count, total_rows) == 100 * gap_count >= 15 * total_rows

\* The x of range(0, int(page_width), x_resolution) that pass the test.
PersistentGaps(rows, pw) ==
    LET range == ContentRange(rows)
        occ == [i \in 1..Len(rows) |-> Occupied(rows[i])]
    IN {x \in 0..(pw - 1) :
          /\ x % x_resolution = 0
          /\ Persistent(GapCount(range, occ, x), Len(rows))}

\* "gap_width >= min_gap_width", min_gap_width = page_width * 0.05
WideEnough(gap_width, pw) == 100 * gap_width >= 5 * pw

\* The scan "for x in sorted(range(0, int(page_width), x_resolution))" from x
\* on, taken one gap at a time: gap_start is the next x that passes the test,
\* and the gap is closed by the first later x of the range that fails it; a
\* gap still open when the range ends is never recorded.
RECURSIVE GapScan(_, _, _)
GapScan(x, gaps, pw) ==
    LET starts == {g \in gaps : g >= x}
    IN IF starts = {} THEN <<>>
       ELSE LET gap_start == SetMin(starts)
                ends == {e \in (gap_start + 1)..(pw - 1) :
                            e % x_resolution = 0 /\ e \notin gaps}
            IN IF ends = {} THEN <<>>
               ELSE LET end == SetMin(ends)
                        gap_middle == <<gap_start + end, 2>>
                    IN (IF WideEnough(end - gap_start, pw) /\ InsideEdges(gap_middle, pw)
                        THEN <<gap_middle>>
                        ELSE <<>>)
                       \o GapScan(end + x_resolution, gaps, pw)

\* The separators of the whitespace strategy (lines 141-199).
WhitespaceSeparators(rows, pw) ==
    IF AllWords(rows) = <<>> THEN <<>>
    ELSE GapScan(0, PersistentGaps(rows, pw), pw)

FallbackTriggeredAtLeast(rows) ==
    10 * Cardinality({i \in 1..Len(rows) : Len(rows[i].words) > 2}) >= 3 * Len(rows)

\* "multi_word_rows > total_rows * 0.3"
FallbackTriggered(rows) ==
    LET multi_word_rows == Cardinality({i \in 1..Len(rows) : Len(rows[i].words) > 2})
    IN 10 * multi_word_rows > 3 * Len(rows)

\* Lines 201-208: what the function returns, given the whitespace separators.
AfterFallback(seps, rows, pw) ==
    IF seps = <<>> /\ Len(rows) > 0 /\ FallbackTriggered(rows)
    THEN DetectColumnSeparatorsByPosition(rows, pw)
    ELSE seps

DetectVerticalGaps(rows, pw) ==
    IF AllWords(rows) = <<>> THEN <<>>
    ELSE AfterFallback(WhitespaceSeparators(rows, pw), rows, pw)

(***************************************************************************)
(* Text. A text is the sequence of its characters, each a one-character    *)
(* string, so that the regular expressions and strip() are computed and    *)
(* not assumed.                                                            *)
(***************************************************************************)
Digits == {"0", "1", "2", "3", "4", "5", "6", "7", "8", "9"}
Whitespace == {" "}

\* str.strip()
RECURSIVE Strip(_)
Strip(t) ==
    IF t = <<>> THEN t
    ELSE IF Head(t) \in Whitespace THEN Strip(Tail(t))
    ELSE IF t[Len(t)] \in Whitespace THEN Strip(SubSeq(t, 1, Len(t) - 1))
    ELSE t

\* ' '.join(texts)
RECURSIVE Join(_)
Join(texts) ==
    IF texts = <<>> THEN <<>>
    ELSE IF Len(texts) = 1 THEN Head(texts)
    ELSE Head(texts) \o <<" ">> \o Join(Tail(texts))

AllIn(t, S) == \A i \in 1..Len(t) : t[i] \in S

\* re.match(r'^[\$\-\d,\.]+$', text), extract_table_spatial
LooksNumeric(text) == text # <<>> /\ AllIn(text, Digits \cup {"$", "-", ",", "."})

\* re.search of has_financial_patterns, one alternative at a time.
\*   [\$%...]  a currency or percent sign anywhere (the euro, pound and yen
\*   signs of the pattern are outside the model's alphabet)
HasCurrencySign(t) == \E i \in 1..Len(t) : t[i] \in {"$", "%"}
\*   ^\-?\d[\d,]*\.\d+$
IsDecimal(t) ==
    LET u == IF t # <<>> /\ Head(t) = "-" THEN Tail(t) ELSE t
    IN \E dot \in 2..(Len(u) - 1) :
          /\ u[dot] = "."
          /\ u[1] \in Digits
          /\ AllIn(SubSeq(u, 2, dot - 1), Digits \cup {","})
          /\ AllIn(SubSeq(u, dot + 1, Len(u)), Digits)
\*   ^\d[\d,]+$
IsGroupedInteger(t) ==
    /\ Len(t) >= 2
    /\ t[1] \in Digits
    /\ AllIn(Tail(t), Digits \cup {","})
\*   ^\(\d[\d,]*\.?\d*\)$
IsParenthesised(t) ==
    /\ Len(t) >= 3
    /\ t[1] = "(" /\ t[Len(t)] = ")" /\ t[2] \in Digits
    /\ LET body == SubSeq(t, 3, Len(t) - 1)
       IN \/ AllIn(body, Digits \cup {","})
          \/ \E dot \in 1..Len(body) :
                /\ body[dot] = "."
                /\ AllIn(SubSeq(body, 1, dot - 1), Digits \cup {","})
                /\ AllIn(SubSeq(body, dot + 1, Len(body)), Digits)

FinancialText(text) ==
    LET t == Strip(text)
    IN HasCurrencySign(t) \/ IsDecimal(t) \/ IsGroupedInteger(t) \/ IsParenthesised(t)

(***************************************************************************)
(* analyze_row_spacing                                                     *)
(***************************************************************************)
\* spacings[i] of the code is Spacings(rows)[i + 1].
Spacings(rows) == [i \in 1..(Len(rows) - 1) |-> rows[i + 1].y - rows[i].y]

\* np.mean(region_spacings) if region_spacings else otherwise
AvgSpacing(region_spacings, otherwise) ==
    IF region_spacings = <<>> THEN Frac(otherwise)
    ELSE <<SumSeq(region_spacings), Len(region_spacings)>>

\* variance_ratio = std_spacing / avg_spacing if avg_spacing > 0 else 0, kept
\* as its square: np.std is the population standard deviation, so
\* std^2 / avg^2 = (n * sum(s^2) - sum(s)^2) / sum(s)^2. std is 0 for fewer
\* than two spacings.
VarianceRatioSq(region_spacings, avg_spacing) ==
    LET n == Len(region_spacings)
        total == SumSeq(region_spacings)
        squares == SumSeq([i \in 1..n |-> region_spacings[i] * region_spacings[i]])
    IN IF n > 1 /\ avg_spacing[1] > 0
       THEN <<n * squares - total * total, total * total>>
       ELSE Frac(0)

\* One tuple of table_regions; start_idx and end_idx count from 0 as in the code.
Region(start_idx, end_idx, region_spacings, otherwise) ==
    LET avg_spacing == AvgSpacing(region_spacings, otherwise)
    IN [start_idx |-> start_idx, end_idx |-> end_idx, avg_spacing |-> avg_spacing,
        variance_sq |-> VarianceRatioSq(region_spacings, avg_spacing)]

\* Python's spacings[a:b] for 0 <= a.
Slice(s, a, b) == IF b <= a THEN <<>> ELSE SubSeq(s, a + 1, IF b > Len(s) THEN Len(s) ELSE b)

RECURSIVE SplitLoopAtLeast(_, _, _, _)
SplitLoopAtLeast(spacings, i, region_start, found) ==
    IF i >= Len(spacings) THEN <<found, region_start>>
    ELSE LET spacing == spacings[i + 1]
         IN IF spacing >= LargeGap
            THEN SplitLoopAtLeast(spacings, i + 1, i + 1,
                     Append(found,
                         Region(region_start, i, Slice(spacings, region_start, i), spacing)))
            ELSE SplitLoopAtLeast(spacings, i + 1, region_start, found)

\* "for i, spacing in enumerate(spacings)" from i on; the result is
\* <<the tuples found, region_start>>.
RECURSIVE SplitLoop(_, _, _, _)
SplitLoop(spacings, i, region_start, found) ==
    IF i >= Len(spacings) THEN <<found, region_start>>
    ELSE LET spacing == spacings[i + 1]
         IN IF spacing > LargeGap
            THEN SplitLoop(spacings, i + 1, i + 1,
                     IF i - region_start >= 0
                     THEN Append(found,
                              Region(region_start, i, Slice(spacings, region_start, i), spacing))
                     ELSE found)
            ELSE SplitLoop(spacings, i + 1, region_start, found)

AnalyzeRowSpacing(rows) ==
    IF Len(rows) < 2 THEN <<>>
    ELSE LET spacings == Spacings(rows)
             loop == SplitLoop(spacings, 0, 0, <<>>)
             region_start == loop[2]
             last == Len(rows) - 1
             with_final ==
                 IF region_start < last
                 THEN Append(loop[1], Region(region_start, last,
                                          Slice(spacings, region_start, Len(spacings)), 10))
                 ELSE IF region_start = last
                 THEN Append(loop[1], Region(region_start, region_start, <<>>, 10))
                 ELSE loop[1]
         IN IF with_final = <<>> /\ Len(rows) >= 2
            THEN <<Region(0, last, spacings, 0)>>
            ELSE with_final

(***************************************************************************)
(* validate_column_alignment                                               *)
(***************************************************************************)
ColIdxInclusive(pos, seps) ==
    Cardinality({k \in 1..Len(seps) : \A j \in 1..k : ~FracLT(pos, seps[j])})

\* "col_idx = 0; for sep in separators: if pos > sep: col_idx += 1 else: break"
\* for a position given as a fraction.
ColIdx(pos, seps) ==
    Cardinality({k \in 1..Len(seps) : \A j \in 1..k : FracLT(seps[j], pos)})

CrossesSeparatorNoTolerance(word, seps) ==
    \E k \in 1..Len(seps) :
        FracLT(Frac(word.x0), seps[k]) /\ FracLT(seps[k], Frac(word.x1))

\* "word['x0'] < sep - tolerance < word['x1']" for some separator
CrossesSeparator(word, seps) ==
    \E k \in 1..Len(seps) :
        /\ FracLT(Frac(word.x0 + tolerance), seps[k])
        /\ FracLT(seps[k], Frac(word.x1 + tolerance))

\* One row counts as aligned: no word crosses and two columns are used.
RowAligned(row, seps) ==
    /\ row.words # <<>>
    /\ \A i \in 1..Len(row.words) : ~CrossesSeparator(row.words[i], seps)
    /\ Cardinality({ColIdx(<<row.words[i].x0 + row.words[i].x1, 2>>, seps)
                    : i \in 1..Len(row.words)}) >= 2

ValidateColumnAlignment(rows, seps) ==
    IF seps = <<>> THEN FALSE
    ELSE LET aligned_rows == Cardinality({i \in 1..Len(rows) : RowAligned(rows[i], seps)})
         IN 10 * aligned_rows >= 3 * Len(rows)

(***************************************************************************)
(* has_financial_patterns                                                  *)
(***************************************************************************)
HasFinancialPatterns(row_words, seps) ==
    \E i \in 1..Len(row_words) :
        /\ seps = <<>> \/ FracLT(seps[Len(seps)], Frac(row_words[i].x0))
        /\ FinancialText(row_words[i].text)

(***************************************************************************)
(* identify_table_regions                                                  *)
(***************************************************************************)
\* "not words or len(words) < 10"
TooFewWordsNever(ws) == ws = <<>>

TooFewWords(ws) == ws = <<>> \/ Len(ws) < MinWords

\* 'num_columns': len(separators) + 1
NumColumnsOff(seps) == Len(seps)

NumColumns(seps) == Len(seps) + 1

\* The dict appended to validated_tables for one tuple of table_regions.
TableInfo(rows, region, pw) ==
    LET rrows == SubSeq(rows, region.start_idx + 1, region.end_idx + 1)
        seps == DetectVerticalGaps(rrows, pw)
        total_words == Len(AllWords(rrows))
    IN [rows |-> rrows,
        separators |-> seps,
        num_columns |-> NumColumns(seps),
        avg_row_spacing |-> region.avg_spacing,
        has_financial |-> \E i \in 1..Len(rrows) :
                              HasFinancialPatterns(rrows[i].words, seps),
        alignment_valid |-> IF Len(seps) > 0
                            THEN ValidateColumnAlignment(rrows, seps)
                            ELSE TRUE,
        words_per_row |-> <<total_words, Len(rrows)>>]

\* The function after page.extract_words has returned ws.
IdentifyTableRegionsStrict(ws, pw) ==
    IF TooFewWords(ws) THEN <<>>
    ELSE LET rows == DetectRows(ws)
             regions == AnalyzeRowSpacing(rows)
             infos == [i \in 1..Len(regions) |-> TableInfo(rows, regions[i], pw)]
         IN SelectSeq(infos, LAMBDA t : t.alignment_valid)

IdentifyTableRegions(ws, pw) ==
    IF TooFewWords(ws) THEN <<>>
    ELSE LET rows == DetectRows(ws)
             regions == AnalyzeRowSpacing(rows)
         IN IF Len(rows) < 1 \/ regions = <<>> THEN <<>>
            ELSE [i \in 1..Len(regions) |-> TableInfo(rows, regions[i], pw)]

(***************************************************************************)
(* extract_table_with_column_detection: one region's table                 *)
(***************************************************************************)
Min(a, b) == IF a < b THEN a ELSE b

\* "col_idx = min(int(word['x0'] / (page.width / num_cols)), num_cols - 1)"
EqualWidthColumn(word, num_cols, pw) == Min((word.x0 * num_cols) \div pw, num_cols - 1)

\* "if row[col_idx]: row[col_idx] += ' ' + word['text'] else: row[col_idx] = word['text']"
\* on cell col_idx (counted from 0) of row.
AddToCell(row, col_idx, text) ==
    [row EXCEPT ![col_idx + 1] = IF @ # <<>> THEN @ \o <<" ">> \o text ELSE text]

\* The row after the words ws (already sorted by x0) have been distributed.
RECURSIVE Distribute(_, _, _, _, _)
Distribute(row, ws, seps, num_cols, pw) ==
    IF ws = <<>> THEN row
    ELSE LET word == Head(ws)
             col_idx == IF seps = <<>>
                        THEN EqualWidthColumn(word, num_cols, pw)
                        ELSE ColIdx(Frac(word.x0), seps)
         IN Distribute(IF seps = <<>> \/ col_idx < num_cols
                       THEN AddToCell(row, col_idx, word.text)
                       ELSE row,
                       Tail(ws), seps, num_cols, pw)

\* One iteration of "for y_pos, row_words in region_rows" up to the strip.
AssembleRow(row_words, seps, num_cols, pw) ==
    LET row == Distribute([c \in 1..num_cols |-> <<>>], SortedByX0(row_words),
                          seps, num_cols, pw)
    IN [c \in 1..num_cols |-> Strip(row[c])]

\* "any(cell for cell in row)"
AnyCell(row) == \E c \in 1..Len(row) : row[c] # <<>>

\* The records all_tables gains for one table_info: none or one. ys, the
\* y_pos of every row of table_data, is not a field of the code's record; it
\* is kept to state where a grid row comes from.
BuildTable(table_info, page, idx, pw) ==
    LET rrows == table_info.rows
        assembled == [i \in 1..Len(rrows) |->
                         [y |-> rrows[i].y,
                          cells |-> AssembleRow(rrows[i].words, table_info.separators,
                                                table_info.num_columns, pw)]]
        table_data == SelectSeq(assembled, LAMBDA r : AnyCell(r.cells))
        df == SelectSeq(table_data, LAMBDA r : AnyCell(r.cells))
    IN IF table_data # <<>> /\ df # <<>>
       THEN <<[page |-> page,
               dataframe |-> [i \in 1..Len(df) |-> df[i].cells],
               num_columns |-> table_info.num_columns,
               table_index |-> idx,
               has_financial |-> table_info.has_financial,
               separators |-> table_info.separators,
               ys |-> [i \in 1..Len(df) |-> df[i].y]]>>
       ELSE <<>>

(***************************************************************************)
(* extract_table_spatial: one page                                         *)
(***************************************************************************)
\* col_split as a fraction (lines 534-553); rows are the page's rows in y order.
ColSplitMidpoint(rows, pw) == <<pw, 2>>

ColSplit(rows, pw) ==
    LET ws == AllWords(rows)
        all_num_x == {ws[i].x0 : i \in {j \in 1..Len(ws) : LooksNumeric(ws[j].text)}}
        all_text_x == {ws[i].x1 : i \in {j \in 1..Len(ws) : ~LooksNumeric(ws[j].text)}}
    IN IF all_text_x # {} /\ all_num_x # {}
       THEN <<SetMax(all_text_x) + SetMin(all_num_x), 2>>
       ELSE <<pw, 2>>

\* [col1_text, col2_text] of one row (lines 559-566).
TwoColumnsBoth(row_words, col_split) ==
    LET sorted == SortedByX0(row_words)
        text == Strip(Join([i \in 1..Len(sorted) |-> sorted[i].text]))
    IN <<text, text>>

TwoColumns(row_words, col_split) ==
    LET sorted == SortedByX0(row_words)
        col1_words == SelectSeq(sorted, LAMBDA w : FracLT(Frac(w.x0), col_split))
        col2_words == SelectSeq(sorted, LAMBDA w : ~FracLT(Frac(w.x0), col_split))
    IN <<Strip(Join([i \in 1..Len(col1_words) |-> col1_words[i].text])),
         Strip(Join([i \in 1..Len(col2_words) |-> col2_words[i].text]))>>

\* The records all_tables gains for one page whose words are ws: none or one.
LegacyTables(ws, pw, page) ==
    IF ws = <<>> THEN <<>>
    ELSE LET rows == SortRows(GroupAll(<<>>, ws))
             col_split == ColSplit(rows, pw)
             built == [i \in 1..Len(rows) |->
                          [y |-> rows[i].y, cells |-> TwoColumns(rows[i].words, col_split)]]
             table_data == SelectSeq(built, LAMBDA r : r.cells[1] # <<>> \/ r.cells[2] # <<>>)
             df == SelectSeq(table_data, LAMBDA r : r.cells[1] # <<>> \/ r.cells[2] # <<>>)
         IN IF table_data # <<>> /\ df # <<>>
            THEN <<[page |-> page,
                    dataframe |-> [i \in 1..Len(df) |-> df[i].cells],
                    ys |-> [i \in 1..Len(df) |-> df[i].y]]>>
            ELSE <<>>

(***************************************************************************)
(* Documents: what pdfplumber gives the extraction. A page is              *)
(* [width, words, fails]: fails says that page.extract_words raises.       *)
(***************************************************************************)
T_Revenue == <<"R", "e", "v", "e", "n", "u", "e">>
T_Cost == <<"C", "o", "s", "t">>
T_Total == <<"T", "o", "t", "a", "l">>
T_Q1 == <<"Q", "1">>
T_100 == <<"1", "0", "0">>
T_50 == <<"5", "0">>
T_Dash == <<"-">>
T_Amount == <<"$", "1", ",", "2", "0", "0", ".", "5", "0">>

Page(width, ws, fails) == [width |-> width, words |-> ws, fails |-> fails]

Reverse(s) == [i \in 1..Len(s) |-> s[Len(s) + 1 - i]]

\* Row templates <<x0, x1, text>> of the generated pages (width 100):
\*   1  two columns                     2  three columns
\*   3  three overlapping tokens whose starts are ClusterGap apart
\*   4  a wide token across the gap of templates 1 and 2, and a lone "-"
\*   5  a single token
\*   6  template 1 with a token that starts where the separator of
\*      template 1 falls (x = 51)
RowTemplates ==
    << << <<10, 30, T_Cost>>, <<70, 90, T_50>> >>,
       << <<10, 30, T_Cost>>, <<44, 56, T_Q1>>, <<70, 90, T_100>> >>,
       << <<10, 42, T_Revenue>>, <<40, 72, T_Total>>, <<70, 94, T_Amount>> >>,
       << <<30, 60, T_Revenue>>, <<70, 90, T_Dash>> >>,
       << <<10, 30, T_Total>> >>,
       << <<10, 30, T_Cost>>, <<51, 60, T_Q1>>, <<70, 90, T_50>> >> >>

\* The words of template tpl at y; every second word sits 2 lower, within
\* y_tolerance of the row.
TemplateWords(tpl, y) ==
    [i \in 1..Len(RowTemplates[tpl]) |->
        Word(RowTemplates[tpl][i][1], RowTemplates[tpl][i][2],
             IF i % 2 = 0 THEN y + 2 ELSE y, RowTemplates[tpl][i][3])]

\* A page of n rows 20 apart, all of template base but row oddAt (0: none), of
\* template odd, with 250 more between rows gapAt and gapAt + 1 (0: nowhere),
\* its words emitted top-down or, with rev, bottom-up.
GenPage(base, n, odd, oddAt, gapAt, rev) ==
    LET ws == Concat([i \in 1..n |->
                  TemplateWords(IF i = oddAt THEN odd ELSE base,
                                20 * i + (IF gapAt # 0 /\ i > gapAt THEN 250 ELSE 0))])
    IN Page(100, IF rev THEN Reverse(ws) ELSE ws, FALSE)

GenPages ==
    {GenPage(base, n, odd, oddAt, gapAt, rev) :
        base \in 1..Len(RowTemplates), n \in 1..MaxRows, odd \in 1..Len(RowTemplates),
        oddAt \in 0..MaxRows, gapAt \in 0..MaxRows, rev \in BOOLEAN}

\* Pages of the multi-page documents (width 450).
FailingPage == Page(450, <<>>, TRUE)
EmptyPage == Page(450, <<>>, FALSE)
OneTokenPage == Page(450, <<Word(10, 60, 100, T_Revenue)>>, FALSE)
\* Scenario 1 of the specification: two rows, four tokens.
Scenario1Page ==
    Page(450, <<Word(10, 60, 100, T_Revenue), Word(400, 420, 100, T_100),
                Word(10, 60, 120, T_Cost), Word(400, 420, 120, T_50)>>, FALSE)
\* The layout of scenario 1 with five rows, ten tokens.
TenTokenPage ==
    Page(450, Concat([i \in 1..5 |->
                  <<Word(10, 60, 80 + 20 * i, IF i % 2 = 1 THEN T_Revenue ELSE T_Cost),
                    Word(400, 420, 80 + 20 * i, IF i % 2 = 1 THEN T_100 ELSE T_50)>>]),
         FALSE)

SmallPages == {FailingPage, EmptyPage, OneTokenPage, Scenario1Page, TenTokenPage}

Documents ==
    {[opens |-> FALSE, pages |-> <<>>]}
    \cup {[opens |-> TRUE, pages |-> ps] : ps \in SeqsUpTo(SmallPages, MaxPages)}
    \cup {[opens |-> TRUE, pages |-> <<p>>] : p \in GenPages}

(***************************************************************************)
(* Inputs of the two unit specifications.                                  *)
(***************************************************************************)
\* Tokens for the row grouper: tops 0 and 4 are more than y_tolerance apart
\* and 3 is within y_tolerance of both.
RowTokens == {Word(x, x + 20, t, <<"w">>) : x \in {10, 50}, t \in {0, 3, 4, 7}}

\* Token spans <<x0, x1>> for the column detector. <<11, 29>> starts at an
\* odd x; <<40, 72>>, <<70, 102>>, <<100, 130>> overlap after snapping and
\* start ClusterGap apart; <<10, 30>>, <<44, 56>>, <<70, 102>> leave two gaps.
Spans == {<<10, 30>>, <<11, 29>>, <<44, 56>>, <<40, 72>>, <<70, 102>>, <<100, 130>>}

SpanRows == {S \in SUBSET Spans : Cardinality(S) \in 1..3}

\* The set S of spans as the words of a row at y, rightmost first.
RowOfSpans(S, y) ==
    LET p == SortPairs([i \in 1..Cardinality(S) |->
                 LET sp == CHOOSE f \in [1..Cardinality(S) -> S] :
                               \A a, b \in 1..Cardinality(S) :
                                   a < b => \/ f[a][1] < f[b][1]
                                            \/ (f[a][1] = f[b][1] /\ f[a][2] < f[b][2])
                 IN [k |-> 0 - sp[i][1], v |-> Word(sp[i][1], sp[i][2], y, <<"w">>)]])
    IN [y |-> y, words |-> [i \in 1..Len(p) |-> p[i].v]]

\* A region: a rows of spans A followed by b rows of spans B, 10 apart.
RegionOf(A, a, B, b) ==
    [i \in 1..(a + b) |-> RowOfSpans(IF i <= a THEN A ELSE B, 10 * i)]

Regions ==
    {RegionOf(A, a, B, b) :
        A \in SpanRows, B \in SpanRows,
        a \in 1..MaxRegionRows, b \in 0..MaxRegionRows}

\* Regions of RatioRows rows, for the fallback's "30% of rows" test: a rows
\* of spans A and the others of spans B.
RatioRegions ==
    {RegionOf(A, a, B, RatioRows - a) : A \in SpanRows, B \in SpanRows, a \in 2..4}

PageWidths == {80, 100, 160}

(***************************************************************************)
(* SpecRows: detect_rows_with_consistent_spacing, step by step.            *)
(***************************************************************************)
IdleGaps == /\ region_rows = <<>> /\ page_width = 0 /\ separators = <<>> /\ gap_pc = "idle"
IdleRows == /\ words = <<>> /\ scan = 0 /\ rows_dict = <<>> /\ sorted_rows = <<>>
            /\ row_pc = "idle"
IdleSpacing == /\ spacing_rows = <<>> /\ spacing_regions = <<>> /\ spacing_pc = "idle"
IdleUI == /\ algorithm = "none" /\ pdf_file = [opens |-> FALSE, pages |-> <<>>]
          /\ session_idx = -1 /\ tables = <<>> /\ shown = "idle"
IdleDoc == /\ strategy = "none" /\ pdf = [opens |-> FALSE, pages |-> <<>>] /\ pc = "idle"
           /\ page_num = 0 /\ table_regions = <<>> /\ table_idx = 0
           /\ all_tables = <<>> /\ raised = 0

InitRows ==
    /\ words \in SeqsUpTo(RowTokens, MaxWords)
    /\ scan = 0
    /\ rows_dict = <<>>
    /\ sorted_rows = <<>>
    /\ row_pc = "scan"
    /\ IdleGaps
    /\ IdleDoc
    /\ IdleSpacing
    /\ IdleUI

\* One iteration of "for word in words" (lines 18-29).
RowScan ==
    /\ row_pc = "scan"
    /\ scan < Len(words)
    /\ rows_dict' = RowStep(rows_dict, words[scan + 1])
    /\ scan' = scan + 1
    /\ UNCHANGED <<words, sorted_rows, row_pc, gapVars, docVars, spacingVars, uiVars>>

\* Lines 31-34 (and the early return of lines 12-13, which returns the same
\* empty list).
RowReturn ==
    /\ row_pc = "scan"
    /\ scan = Len(words)
    /\ sorted_rows' = SortRows(rows_dict)
    /\ row_pc' = "done"
    /\ UNCHANGED <<words, scan, rows_dict, gapVars, docVars, spacingVars, uiVars>>

NextRows == RowScan \/ RowReturn

SpecRows == InitRows /\ [][NextRows]_vars

(***************************************************************************)
(* SpecGaps: detect_vertical_gaps on one region.                           *)
(***************************************************************************)
InitGaps ==
    /\ region_rows \in {r \in Regions : Len(r) <= MaxRegionRows} \cup RatioRegions
    /\ page_width \in PageWidths
    /\ separators = <<>>
    /\ gap_pc = "scan"
    /\ IdleRows
    /\ IdleDoc
    /\ IdleSpacing
    /\ IdleUI

\* Lines 141-199: the whitespace strategy.
ScanGaps ==
    /\ gap_pc = "scan"
    /\ separators' = WhitespaceSeparators(region_rows, page_width)
    /\ gap_pc' = "fallback"
    /\ UNCHANGED <<region_rows, page_width, rowVars, docVars, spacingVars, uiVars>>

\* Lines 201-206: the test that guards the fallback; without the fallback the
\* function returns the whitespace separators (line 208).
Fallback ==
    /\ gap_pc = "fallback"
    /\ gap_pc' = IF separators = <<>> /\ Len(region_rows) > 0 /\ FallbackTriggered(region_rows)
                 THEN "position"
                 ELSE "done"
    /\ UNCHANGED <<region_rows, page_width, separators, rowVars, docVars, spacingVars, uiVars>>

\* Lines 207-208: the position-clustering fallback, then the return.
ByPosition ==
    /\ gap_pc = "position"
    /\ separators' = DetectColumnSeparatorsByPosition(region_rows, page_width)
    /\ gap_pc' = "done"
    /\ UNCHANGED <<region_rows, page_width, rowVars, docVars, spacingVars, uiVars>>

NextGaps == ScanGaps \/ Fallback \/ ByPosition

SpecGaps == InitGaps /\ [][NextGaps]_vars

(***************************************************************************)
(* SpecSpacing: analyze_row_spacing on one sorted row list.                *)
(***************************************************************************)
\* Row spacings: an ordinary line step, the threshold itself, one more, and
\* the 250 of a section break.
RowSpacings == {20, LargeGap, LargeGap + 1, 250}

\* The rows (one token each) at the ys that start at 100 and step by steps.
RECURSIVE RowsAt(_, _)
RowsAt(y, steps) ==
    <<[y |-> y, words |-> <<Word(10, 30, y, <<"w">>)>>]>>
    \o (IF steps = <<>> THEN <<>> ELSE RowsAt(y + Head(steps), Tail(steps)))

SpacingInputs ==
    {<<>>} \cup {RowsAt(100, steps) : steps \in SeqsUpTo(RowSpacings, MaxSpacingRows - 1)}

InitSpacing ==
    /\ spacing_rows \in SpacingInputs
    /\ spacing_regions = <<>>
    /\ spacing_pc = "call"
    /\ IdleRows
    /\ IdleGaps
    /\ IdleDoc
    /\ IdleUI

\* The call (lines 37-92).
AnalyzeSpacing ==
    /\ spacing_pc = "call"
    /\ spacing_regions' = AnalyzeRowSpacing(spacing_rows)
    /\ spacing_pc' = "done"
    /\ UNCHANGED <<spacing_rows, rowVars, gapVars, docVars, uiVars>>

NextSpacing == AnalyzeSpacing

SpecSpacing == InitSpacing /\ [][NextSpacing]_vars

(***************************************************************************)
(* Spec: the extraction of one document, by the function app.py selects    *)
(* (extract_table_with_column_detection or extract_table_spatial).         *)
(* pc = "raise" is an exception in flight inside the try block.            *)
(***************************************************************************)
Init ==
    /\ strategy \in {"enhanced", "legacy"}
    /\ pdf \in Documents
    /\ pc = "open"
    /\ page_num = 0
    /\ table_regions = <<>>
    /\ table_idx = 0
    /\ all_tables = <<>>
    /\ raised = 0
    /\ IdleRows
    /\ IdleGaps
    /\ IdleSpacing
    /\ IdleUI

CurrentPage == pdf.pages[page_num]

\* "with pdfplumber.open(pdf_path) as pdf": the document opens, or open raises.
Open ==
    /\ pc = "open"
    /\ IF pdf.opens
       THEN pc' = "page" /\ page_num' = 1 /\ raised' = raised
       ELSE pc' = "raise" /\ page_num' = page_num /\ raised' = -1
    /\ UNCHANGED <<strategy, pdf, table_regions, table_idx, all_tables, rowVars, gapVars, spacingVars, uiVars>>

\* Enhanced, lines 415-420: identify_table_regions(page), whose extract_words
\* may raise; a page without regions is skipped.
IdentifyRegions ==
    /\ pc = "page"
    /\ strategy = "enhanced"
    /\ page_num <= Len(pdf.pages)
    /\ IF CurrentPage.fails
       THEN /\ pc' = "raise"
            /\ raised' = page_num
            /\ UNCHANGED <<page_num, table_regions, table_idx>>
       ELSE /\ table_regions' = IdentifyTableRegions(CurrentPage.words, CurrentPage.width)
            /\ IF table_regions' = <<>>
               THEN pc' = "page" /\ page_num' = page_num + 1 /\ table_idx' = table_idx
               ELSE pc' = "tables" /\ page_num' = page_num /\ table_idx' = 0
            /\ raised' = raised
    /\ UNCHANGED <<strategy, pdf, all_tables, rowVars, gapVars, spacingVars, uiVars>>

\* Enhanced, lines 423-489: one iteration of "for table_idx, table_info in
\* enumerate(table_regions)"; after the last one the page loop goes on.
EmitTable ==
    /\ pc = "tables"
    /\ table_idx < Len(table_regions)
    /\ all_tables' = all_tables \o BuildTable(table_regions[table_idx + 1], page_num,
                                              table_idx, CurrentPage.width)
    /\ IF table_idx + 1 < Len(table_regions)
       THEN table_idx' = table_idx + 1 /\ pc' = pc /\ page_num' = page_num
       ELSE table_idx' = table_idx /\ pc' = "page" /\ page_num' = page_num + 1
    /\ UNCHANGED <<strategy, pdf, table_regions, raised, rowVars, gapVars, spacingVars, uiVars>>

\* Legacy, lines 506-586: one iteration of the page loop.
LegacyPage ==
    /\ pc = "page"
    /\ strategy = "legacy"
    /\ page_num <= Len(pdf.pages)
    /\ IF CurrentPage.fails
       THEN /\ pc' = "raise"
            /\ raised' = page_num
            /\ UNCHANGED <<page_num, all_tables>>
       ELSE /\ all_tables' = all_tables \o LegacyTables(CurrentPage.words, CurrentPage.width,
                                                        page_num)
            /\ page_num' = page_num + 1
            /\ pc' = pc
            /\ raised' = raised
    /\ UNCHANGED <<strategy, pdf, table_regions, table_idx, rowVars, gapVars, spacingVars, uiVars>>

\* The page loop is exhausted: "return all_tables".
Finish ==
    /\ pc = "page"
    /\ page_num > Len(pdf.pages)
    /\ pc' = "done"
    /\ UNCHANGED <<strategy, pdf, page_num, table_regions, table_idx, all_tables, raised,
                   rowVars, gapVars, spacingVars, uiVars>>

\* "except Exception as e: print(...)", then "return all_tables".
ExceptDropsTables ==
    /\ pc = "raise"
    /\ pc' = "done"
    /\ all_tables' = <<>>
    /\ UNCHANGED <<strategy, pdf, page_num, table_regions, table_idx, raised,
                   rowVars, gapVars, spacingVars, uiVars>>

ExceptResumes ==
    /\ pc = "raise"
    /\ IF raised >= 1
       THEN pc' = "page" /\ page_num' = page_num + 1
       ELSE pc' = "done" /\ page_num' = page_num
    /\ UNCHANGED <<strategy, pdf, table_regions, table_idx, all_tables, raised,
                   rowVars, gapVars, spacingVars, uiVars>>

Except ==
    /\ pc = "raise"
    /\ pc' = "done"
    /\ UNCHANGED <<strategy, pdf, page_num, table_regions, table_idx, all_tables, raised,
                   rowVars, gapVars, spacingVars, uiVars>>

Next == Open \/ IdentifyRegions \/ EmitTable \/ LegacyPage \/ Finish \/ Except

Spec == Init /\ [][Next]_vars

(***************************************************************************)
(* SpecUI: the expander of one document in app.py's main, script run by    *)
(* script run. The key of the expander's session state is made of the      *)
(* file's index and base name (line 113), so it stays the same when the    *)
(* algorithm changes and when another file of that name takes the place.   *)
(***************************************************************************)
\* What the function main calls (lines 131-134) returns for a document.
RECURSIVE ExtractFrom(_, _, _)
ExtractFrom(alg, pages, n) ==
    IF n > Len(pages) THEN <<>>
    ELSE IF pages[n].fails THEN <<>>
    ELSE (IF alg = "enhanced"
          THEN LET regs == IdentifyTableRegions(pages[n].words, pages[n].width)
               IN Concat([k \in 1..Len(regs) |->
                             BuildTable(regs[k], n, k - 1, pages[n].width)])
          ELSE LegacyTables(pages[n].words, pages[n].width, n))
         \o ExtractFrom(alg, pages, n + 1)

ExtractTables(alg, doc) == IF doc.opens THEN ExtractFrom(alg, doc.pages, 1) ELSE <<>>

\* A page of two regions: rows of template 1 with a section break after the
\* second.
TwoRegionPage == GenPage(1, MaxRows, 1, 0, 2, FALSE)

UIPages == SmallPages \cup {TwoRegionPage}

\* The documents a file of the expander's name can hold.
UIDocuments ==
    {[opens |-> FALSE, pages |-> <<>>]}
    \cup {[opens |-> TRUE, pages |-> <<p>>] : p \in UIPages}
    \cup {[opens |-> TRUE, pages |-> <<p, q>>] : p \in UIPages, q \in UIPages}

\* Lines 136-172 and 186-187 of one script run in which no button is pressed:
\* <<session state after the run, what the run ends with>> for the extracted
\* list ts and the session state idx before the run.
Display(ts, idx) ==
    IF ts = <<>> THEN <<idx, "warning">>
    ELSE LET current_idx == IF idx = -1 THEN 0 ELSE idx
         IN <<current_idx, IF current_idx < Len(ts) THEN "table" ELSE "IndexError">>

InitUI ==
    /\ algorithm \in {"enhanced", "legacy"}
    /\ pdf_file \in UIDocuments
    /\ session_idx = -1
    /\ tables = <<>>
    /\ shown = "start"
    /\ IdleRows
    /\ IdleGaps
    /\ IdleDoc
    /\ IdleSpacing

\* The first script run.
FirstRun ==
    /\ shown = "start"
    /\ tables' = ExtractTables(algorithm, pdf_file)
    /\ session_idx' = Display(tables', session_idx)[1]
    /\ shown' = Display(tables', session_idx)[2]
    /\ UNCHANGED <<algorithm, pdf_file, rowVars, gapVars, docVars, spacingVars>>

\* The user picks the other algorithm in the selectbox (lines 34-38): the
\* script runs again.
SelectAlgorithm ==
    /\ shown # "start"
    /\ algorithm' = IF algorithm = "enhanced" THEN "legacy" ELSE "enhanced"
    /\ tables' = ExtractTables(algorithm', pdf_file)
    /\ session_idx' = Display(tables', session_idx)[1]
    /\ shown' = Display(tables', session_idx)[2]
    /\ UNCHANGED <<pdf_file, rowVars, gapVars, docVars, spacingVars>>

\* The input changes (lines 47-92) so that another document has the same
\* index and base name: the script runs again.
ChangeFiles ==
    /\ shown # "start"
    /\ \E doc \in UIDocuments :
           /\ doc # pdf_file
           /\ pdf_file' = doc
    /\ tables' = ExtractTables(algorithm, pdf_file')
    /\ session_idx' = Display(tables', session_idx)[1]
    /\ shown' = Display(tables', session_idx)[2]
    /\ UNCHANGED <<algorithm, rowVars, gapVars, docVars, spacingVars>>

\* The user clicks Previous, which the last run rendered enabled (lines
\* 146-151; the buttons are rendered before line 170 is reached): the script
\* runs with the button set, stores max(0, current_idx - 1) and reruns.
PreviousButton ==
    /\ shown \in {"table", "IndexError"}
    /\ Len(tables) > 1
    /\ session_idx # 0
    /\ LET stored == IF session_idx - 1 > 0 THEN session_idx - 1 ELSE 0
       IN /\ tables' = ExtractTables(algorithm, pdf_file)
          /\ session_idx' = Display(tables', stored)[1]
          /\ shown' = Display(tables', stored)[2]
    /\ UNCHANGED <<algorithm, pdf_file, rowVars, gapVars, docVars, spacingVars>>

\* The user clicks Next, rendered enabled (lines 155-157): the script runs
\* with the button set, stores min(len(tables) - 1, current_idx + 1) and
\* reruns.
NextButton ==
    /\ shown \in {"table", "IndexError"}
    /\ Len(tables) > 1
    /\ session_idx < Len(tables) - 1
    /\ LET stored == IF session_idx + 1 < Len(tables) - 1
                     THEN session_idx + 1
                     ELSE Len(tables) - 1
       IN /\ tables' = ExtractTables(algorithm, pdf_file)
          /\ session_idx' = Display(tables', stored)[1]
          /\ shown' = Display(tables', stored)[2]
    /\ UNCHANGED <<algorithm, pdf_file, rowVars, gapVars, docVars, spacingVars>>

NextUI == FirstRun \/ SelectAlgorithm \/ ChangeFiles \/ PreviousButton \/ NextButton

SpecUI == InitUI /\ [][NextUI]_vars

(***************************************************************************)
(* C1. Row Grouper: every input token lands in exactly one output row      *)
(* exactly once (the rows' tokens, taken together, are the input as a bag: *)
(* nothing lost, nothing duplicated), and the returned rows are in         *)
(* strictly increasing y order.                                            *)
(***************************************************************************)
Count(t, s) == Cardinality({i \in 1..Len(s) : s[i] = t})

C1_RowGrouperPartition ==
    row_pc = "done" =>
        /\ \A t \in RowTokens : Count(t, AllWords(sorted_rows)) = Count(t, words)
        /\ Len(AllWords(sorted_rows)) = Len(words)
        /\ \A i \in 1..(Len(sorted_rows) - 1) : sorted_rows[i].y < sorted_rows[i + 1].y

\* Tokens arrive bottom-up, two rows come out, one of them with two tokens.
C1_Witness ==
    /\ row_pc = "done"
    /\ Len(words) >= 3
    /\ words[1].top > words[Len(words)].top
    /\ Len(sorted_rows) >= 2
    /\ \E i \in 1..Len(sorted_rows) : Len(sorted_rows[i].words) >= 2

(***************************************************************************)
(* C3. detect_vertical_gaps: the separators, those of the whitespace       *)
(* strategy and those the position-clustering fallback returns, are in     *)
(* ascending order and every one lies strictly between 30 and              *)
(* page_width - 30.                                                        *)
(***************************************************************************)
C3_SeparatorsSortedInside ==
    gap_pc \in {"fallback", "done"} =>
        /\ \A i \in 1..Len(separators) : InsideEdges(separators[i], page_width)
        /\ \A i \in 1..(Len(separators) - 1) : FracLT(separators[i], separators[i + 1])

\* The fallback ran and returned two separators.
C3_Witness ==
    /\ gap_pc = "done"
    /\ WhitespaceSeparators(region_rows, page_width) = <<>>
    /\ Len(separators) >= 2

(***************************************************************************)
(* Vocabulary of the claims about Spec.                                    *)
(***************************************************************************)
\* Page j's iteration of the page loop has completed.
Processed(j) == j \in 1..Len(pdf.pages) /\ j < page_num

\* The records of all_tables that carry page number j.
TablesOf(j) == SelectSeq(all_tables, LAMBDA t : t.page = j)

\* What page j yields when nothing before it has failed.
StandaloneTables(j) ==
    LET page == pdf.pages[j]
    IN IF page.fails THEN <<>>
       ELSE IF strategy = "legacy" THEN LegacyTables(page.words, page.width, j)
       ELSE LET regs == IdentifyTableRegions(page.words, page.width)
            IN Concat([i \in 1..Len(regs) |-> BuildTable(regs[i], j, i - 1, page.width)])

Ascending(ys) == \A i \in 1..(Len(ys) - 1) : ys[i] < ys[i + 1]

(***************************************************************************)
(* C2. Every region of the enhanced pipeline has num_columns =             *)
(* len(separators) + 1 (one column when there is no separator), and every  *)
(* row of the grid emitted for it has exactly num_columns cells, at least  *)
(* one of them non-empty.                                                  *)
(***************************************************************************)
C2_RectangularGrid ==
    strategy = "enhanced" =>
        /\ \A i \in 1..Len(table_regions) :
               table_regions[i].num_columns = Len(table_regions[i].separators) + 1
        /\ \A i \in 1..Len(all_tables) :
               LET t == all_tables[i]
               IN /\ t.num_columns = Len(t.separators) + 1
                  /\ t.dataframe # <<>>
                  /\ \A r \in 1..Len(t.dataframe) :
                         /\ Len(t.dataframe[r]) = t.num_columns
                         /\ \E c \in 1..t.num_columns : t.dataframe[r][c] # <<>>

\* One page gave a one-column table and a table of three columns or more.
C2_Witness ==
    /\ strategy = "enhanced"
    /\ \E i \in 1..Len(all_tables) : all_tables[i].separators = <<>>
    /\ \E i \in 1..Len(all_tables) : Len(all_tables[i].separators) >= 2

(***************************************************************************)
(* C4. Scenario 1, as claimed: the four-token page (Revenue/100, Cost/50)  *)
(* gives, under the enhanced extraction, exactly one table with one        *)
(* separator near x = 225 and the grid [[Revenue, 100], [Cost, 50]].       *)
(***************************************************************************)
Near225(sep) == FracLT(Frac(215), sep) /\ FracLT(sep, Frac(235))

C4_Scenario1AsClaimed ==
    (pc = "done" /\ strategy = "enhanced" /\ pdf.pages = <<Scenario1Page>>) =>
        /\ Len(all_tables) = 1
        /\ Len(all_tables[1].separators) = 1
        /\ Near225(all_tables[1].separators[1])
        /\ all_tables[1].dataframe = << <<T_Revenue, T_100>>, <<T_Cost, T_50>> >>

(***************************************************************************)
(* C4, amended. Under the enhanced extraction the four-token page of       *)
(* scenario 1 gives no table (identify_table_regions returns no region for *)
(* a page of fewer than 10 tokens); the same two-column layout with five   *)
(* rows (ten tokens) gives exactly one table, with the single separator    *)
(* 231 and one grid row [label, amount] per row.                           *)
(***************************************************************************)
C4_Scenario1Amended ==
    strategy = "enhanced" =>
        \A j \in 1..Len(pdf.pages) :
            Processed(j) =>
                /\ pdf.pages[j] = Scenario1Page => TablesOf(j) = <<>>
                /\ pdf.pages[j] = TenTokenPage =>
                       /\ Len(TablesOf(j)) = 1
                       /\ Len(TablesOf(j)[1].separators) = 1
                       /\ FracEq(TablesOf(j)[1].separators[1], Frac(231))
                       /\ Near225(TablesOf(j)[1].separators[1])
                       /\ TablesOf(j)[1].dataframe =
                              << <<T_Revenue, T_100>>, <<T_Cost, T_50>>,
                                 <<T_Revenue, T_100>>, <<T_Cost, T_50>>,
                                 <<T_Revenue, T_100>> >>

\* A document of the scenario 1 page followed by the ten-token page, done.
C4_Witness ==
    /\ pc = "done"
    /\ strategy = "enhanced"
    /\ pdf.pages = <<Scenario1Page, TenTokenPage>>
    /\ Len(all_tables) = 1

C6_ErrorsCaughtPrefixKept ==
    /\ pc \in {"open", "page", "tables", "raise", "done"}
    /\ (pc \in {"raise", "done"} /\ raised # 0) =>
           all_tables = Concat([j \in 1..(IF raised = -1 THEN 0 ELSE raised - 1) |->
                                   StandaloneTables(j)])
    /\ pc = "raise" => ENABLED Except

\* The second page failed after the first had given a table.
C6_Witness ==
    /\ pc = "done"
    /\ raised = 2
    /\ all_tables # <<>>

(***************************************************************************)
(* C7. The enhanced extraction returns one record per detected region in   *)
(* page-then-region order: page numbers count from 1 and never decrease,   *)
(* the tables of one page come in region order (table_index increasing,    *)
(* each table's rows above the next one's), and the rows of a grid are in  *)
(* ascending y of their source rows.                                       *)
(***************************************************************************)
\* The regions the segmenter finds on page j.
DetectedRegions(j) ==
    IF Len(pdf.pages[j].words) < MinWords THEN 0
    ELSE Len(AnalyzeRowSpacing(DetectRows(pdf.pages[j].words)))

C7_PageThenRegionOrder ==
    strategy = "enhanced" =>
        /\ \A i \in 1..Len(all_tables) :
               /\ all_tables[i].page \in 1..Len(pdf.pages)
               /\ Len(all_tables[i].ys) = Len(all_tables[i].dataframe)
               /\ Ascending(all_tables[i].ys)
        /\ \A i, j \in 1..Len(all_tables) :
               i < j => /\ all_tables[i].page <= all_tables[j].page
                        /\ all_tables[i].page = all_tables[j].page =>
                               /\ all_tables[i].table_index < all_tables[j].table_index
                               /\ all_tables[i].ys[Len(all_tables[i].ys)] < all_tables[j].ys[1]
        /\ \A p \in 1..Len(pdf.pages) :
               Processed(p) =>
                   /\ Len(TablesOf(p)) = DetectedRegions(p)
                   /\ \A k \in 1..Len(TablesOf(p)) : TablesOf(p)[k].table_index = k - 1

\* A page whose words arrive bottom-up gave two tables.
C7_Witness ==
    /\ strategy = "enhanced"
    /\ pc = "done"
    /\ Len(pdf.pages) = 1
    /\ Len(all_tables) = 2
    /\ pdf.pages[1].words[1].top > pdf.pages[1].words[Len(pdf.pages[1].words)].top

(***************************************************************************)
(* C8, as claimed. Either strategy: a page with no token gives no table; a *)
(* page with exactly one token gives no table or exactly one table that    *)
(* consists of a single cell; neither raises.                              *)
(***************************************************************************)
C8_OneTokenSingleCell ==
    \A j \in 1..Len(pdf.pages) :
        (~pdf.pages[j].fails /\ Len(pdf.pages[j].words) <= 1) =>
            /\ raised # j
            /\ Processed(j) =>
                   /\ Len(pdf.pages[j].words) = 0 => TablesOf(j) = <<>>
                   /\ Len(pdf.pages[j].words) = 1 =>
                          \/ TablesOf(j) = <<>>
                          \/ /\ Len(TablesOf(j)) = 1
                             /\ Len(TablesOf(j)[1].dataframe) = 1
                             /\ Len(TablesOf(j)[1].dataframe[1]) = 1

(***************************************************************************)
(* C8, amended. Either strategy: a page with no token gives no table; a    *)
(* page with exactly one token gives no table (always so in the enhanced   *)
(* strategy) or exactly one table of a single row that holds the token's   *)
(* text in one cell, every other cell of the row being empty (the legacy   *)
(* row has two cells); neither raises.                                     *)
(***************************************************************************)
C8_OneTokenSingleRow ==
    \A j \in 1..Len(pdf.pages) :
        (~pdf.pages[j].fails /\ Len(pdf.pages[j].words) <= 1) =>
            /\ raised # j
            /\ Processed(j) =>
                   /\ Len(pdf.pages[j].words) = 0 => TablesOf(j) = <<>>
                   /\ (Len(pdf.pages[j].words) = 1 /\ strategy = "enhanced") =>
                          TablesOf(j) = <<>>
                   /\ (Len(pdf.pages[j].words) = 1 /\ TablesOf(j) # <<>>) =>
                          /\ Len(TablesOf(j)) = 1
                          /\ Len(TablesOf(j)[1].dataframe) = 1
                          /\ LET row == TablesOf(j)[1].dataframe[1]
                                 full == {c \in 1..Len(row) : row[c] # <<>>}
                             IN /\ Cardinality(full) = 1
                                /\ \A c \in full : row[c] = pdf.pages[j].words[1].text

\* The legacy extraction has processed a one-token page and holds its table.
C8_Witness ==
    /\ strategy = "legacy"
    /\ Processed(1)
    /\ Len(pdf.pages[1].words) = 1
    /\ Len(TablesOf(1)) = 1
    /\ Len(TablesOf(1)[1].dataframe[1]) = 2

(***************************************************************************)
(* C9. The alignment validator is advisory: identify_table_regions keeps   *)
(* every region the segmenter finds (all rows of the page stay covered),   *)
(* whatever its alignment flag or spacing variance, and every region is    *)
(* emitted with a grid, separators and num_columns that are a function of  *)
(* its rows and separators alone.                                          *)
(***************************************************************************)
\* The grid of a region from its rows, separators and num_columns only.
GridOf(info, pw) ==
    [i \in 1..Len(info.rows) |->
        AssembleRow(info.rows[i].words, info.separators, info.num_columns, pw)]

RowsCovered(infos) == SumSeq([i \in 1..Len(infos) |-> Len(infos[i].rows)])

C9_AlignmentAdvisory ==
    [][/\ (/\ strategy = "enhanced" /\ pc = "page" /\ page_num <= Len(pdf.pages)
           /\ ~CurrentPage.fails /\ Len(CurrentPage.words) >= MinWords) =>
              LET rows == DetectRows(CurrentPage.words)
              IN /\ Len(table_regions') = Len(AnalyzeRowSpacing(rows))
                 /\ Len(rows) >= 2 => RowsCovered(table_regions') = Len(rows)
       /\ pc = "tables" =>
              /\ Len(all_tables') = Len(all_tables) + 1
              /\ LET info == table_regions[table_idx + 1]
                     t == all_tables'[Len(all_tables')]
                 IN /\ t.page = page_num
                    /\ t.table_index = table_idx
                    /\ t.separators = info.separators
                    /\ t.num_columns = info.num_columns
                    /\ t.dataframe = GridOf(info, CurrentPage.width)
      ]_vars

\* A region whose alignment check failed and whose rows are unevenly spaced
\* has been emitted.
C9_Witness ==
    /\ strategy = "enhanced"
    /\ pc = "done"
    /\ \E k \in 1..Len(table_regions) :
           /\ ~table_regions[k].alignment_valid
           /\ table_regions[k].separators # <<>>
           /\ \E i \in 1..(Len(table_regions[k].rows) - 2) :
                  table_regions[k].rows[i + 1].y - table_regions[k].rows[i].y
                      # table_regions[k].rows[i + 2].y - table_regions[k].rows[i + 1].y
           /\ \E i \in 1..Len(all_tables) :
                  /\ all_tables[i].table_index = k - 1
                  /\ all_tables[i].separators = table_regions[k].separators

(***************************************************************************)
(* C10. Legacy mode: every page with at least one token gives exactly one  *)
(* table, every row of it has exactly two cells, a token is in column 0    *)
(* iff its x0 is less than one page-wide boundary and in column 1          *)
(* otherwise, and the boundary is (max x1 of the non-numeric tokens + min  *)
(* x0 of the numeric-looking tokens) / 2, or page_width / 2 when one of    *)
(* the two classes is absent from the page. (Pages the loop has processed: *)
(* C5 and C6 say what a failure does.)                                     *)
(***************************************************************************)
\* Twice the boundary of the claim, for the words ws of a page of width pw.
BoundaryTwice(ws, pw) ==
    LET numeric == {i \in 1..Len(ws) : LooksNumeric(ws[i].text)}
        other == (1..Len(ws)) \ numeric
    IN IF numeric = {} \/ other = {} THEN pw
       ELSE SetMax({ws[i].x1 : i \in other}) + SetMin({ws[i].x0 : i \in numeric})

\* The texts of the words of row_words on one side of the boundary, in x0
\* order, joined by single spaces.
SideText(row_words, left, twice) ==
    LET sorted == SortedByX0(row_words)
        side == SelectSeq(sorted, LAMBDA w : (2 * w.x0 < twice) = left)
    IN Join([i \in 1..Len(side) |-> side[i].text])

C10_LegacyTwoColumns ==
    strategy = "legacy" =>
        \A j \in 1..Len(pdf.pages) :
            Processed(j) =>
                LET ws == pdf.pages[j].words
                    rows == DetectRows(ws)
                    twice == BoundaryTwice(ws, pdf.pages[j].width)
                IN IF ws = <<>> THEN TablesOf(j) = <<>>
                   ELSE /\ Len(TablesOf(j)) = 1
                        /\ Len(TablesOf(j)[1].dataframe) = Len(rows)
                        /\ \A r \in 1..Len(rows) :
                               LET cells == TablesOf(j)[1].dataframe[r]
                               IN /\ Len(cells) = 2
                                  /\ cells[1] = SideText(rows[r].words, TRUE, twice)
                                  /\ cells[2] = SideText(rows[r].words, FALSE, twice)

\* A processed page with both classes of tokens, whose boundary is not the
\* middle of the page, and a row with text on both sides.
C10_Witness ==
    /\ strategy = "legacy"
    /\ Processed(1)
    /\ BoundaryTwice(pdf.pages[1].words, pdf.pages[1].width) # pdf.pages[1].width
    /\ Len(TablesOf(1)) = 1
    /\ \E r \in 1..Len(TablesOf(1)[1].dataframe) :
           TablesOf(1)[1].dataframe[r][1] # <<>> /\ TablesOf(1)[1].dataframe[r][2] # <<>>

(***************************************************************************)
(* C11. For every region, regions whose leftmost token edge is odd         *)
(* included, the whitespace strategy of detect_vertical_gaps returns       *)
(* exactly the midpoints of the maximal runs of scan positions that are     *)
(* uncovered in at least 15% of the rows, for the runs at least 5% of the  *)
(* page width wide whose midpoint lies strictly between 30 and             *)
(* page_width - 30.                                                        *)
(* Read at the scan's resolution: the positions are the multiples of       *)
(* x_resolution below the page width, a token covers the positions from    *)
(* its snapped left edge to its snapped right edge, and only positions     *)
(* inside the content bounds count as gaps.                                *)
(***************************************************************************)
ContentStart(rows) ==
    LET xw == AllWords(rows) IN SetMin({xw[i].x0 : i \in 1..Len(xw)})

ContentEnd(rows) ==
    LET xw == AllWords(rows) IN SetMax({xw[i].x1 : i \in 1..Len(xw)})

ScanPositions(pw) == {x \in 0..(pw - 1) : x % x_resolution = 0}

UncoveredIn(row, x) ==
    \A i \in 1..Len(row.words) : x < Snap(row.words[i].x0) \/ x > Snap(row.words[i].x1)

UncoveredPositions(rows, pw) ==
    {x \in ScanPositions(pw) :
        /\ ContentStart(rows) <= x
        /\ x < ContentEnd(rows)
        /\ 100 * Cardinality({i \in 1..Len(rows) : UncoveredIn(rows[i], x)})
               >= 15 * Len(rows)}

\* The maximal runs of G as pairs <<first position, first position after>>.
MaximalRuns(G, pw) ==
    {<<s, SetMin({e \in (s + 1)..(pw + x_resolution) :
                     e % x_resolution = 0 /\ e \notin G})>> :
        s \in {g \in G : (g - x_resolution) \notin G}}

ClaimedSeparators(rows, pw) ==
    {<<r[1] + r[2], 2>> : r \in {q \in MaximalRuns(UncoveredPositions(rows, pw), pw) :
                                   /\ 100 * (q[2] - q[1]) >= 5 * pw
                                   /\ 2 * EdgeMargin < q[1] + q[2]
                                   /\ q[1] + q[2] < 2 * (pw - EdgeMargin)}}

\* The region's tokens lie on the page.
OnPage(rows, pw) == ContentEnd(rows) < pw

\* The claim as stated: violated by a region whose content starts at an odd x.
C11_WhitespaceGapsExact ==
    (gap_pc = "fallback" /\ OnPage(region_rows, page_width))
        => /\ Range(separators) = ClaimedSeparators(region_rows, page_width)
           /\ Len(separators) = Cardinality(ClaimedSeparators(region_rows, page_width))

\* What the code does: the claim's separators when the content starts at an
\* even x, and none at all when it starts at an odd x.
C11_ExactOnlyForEvenStart ==
    (gap_pc = "fallback" /\ OnPage(region_rows, page_width))
        => IF ContentStart(region_rows) % x_resolution = 0
           THEN /\ Range(separators) = ClaimedSeparators(region_rows, page_width)
                /\ Len(separators) = Cardinality(ClaimedSeparators(region_rows, page_width))
           ELSE separators = <<>>

\* A region that starts at an odd x and has a gap the claim makes a separator,
\* after the whitespace scan.
C11_Witness ==
    /\ gap_pc = "fallback"
    /\ OnPage(region_rows, page_width)
    /\ ContentStart(region_rows) % x_resolution = 1
    /\ ClaimedSeparators(region_rows, page_width) # {}
    /\ separators = <<>>

\* The even-start case happens with one and with two separators.
C11_WitnessEven ==
    /\ gap_pc = "fallback"
    /\ OnPage(region_rows, page_width)
    /\ ContentStart(region_rows) % x_resolution = 0
    /\ Len(separators) = 2

(***************************************************************************)
(* C12. The position-clustering fallback is invoked if and only if the     *)
(* whitespace strategy yields zero separators and the rows holding more    *)
(* than 2 tokens are at least 30% of the region's rows; a region in which  *)
(* exactly 30% of the rows hold more than 2 tokens triggers it.            *)
(***************************************************************************)
MultiWordRows(rows) == Cardinality({i \in 1..Len(rows) : Len(rows[i].words) > 2})

C12_WitnessAbove ==
    /\ gap_pc = "done"
    /\ 10 * MultiWordRows(region_rows) = 4 * Len(region_rows)
    /\ WhitespaceSeparators(region_rows, page_width) = <<>>
    /\ separators # <<>>

(***************************************************************************)
(* C13, as claimed. In validate_column_alignment a row holding a token     *)
(* whose span straddles a separator (x0 < separator < x1, as a token       *)
(* 220..230 does with a separator at 225) is not counted among the clean   *)
(* rows; the region holding it is emitted all the same.                    *)
(* alignment_valid is "clean rows >= 30% of the rows", a clean row being   *)
(* one without a marked token whose token centres use two columns.         *)
(***************************************************************************)
\* x0 < separator < x1 for some separator (a separator is a fraction <<n, d>>).
Straddles(word, seps) ==
    \E k \in 1..Len(seps) :
        word.x0 * seps[k][2] < seps[k][1] /\ seps[k][1] < word.x1 * seps[k][2]

\* x0 < separator - 10 < x1 for some separator.
StraddlesBeyondTolerance(word, seps) ==
    \E k \in 1..Len(seps) :
        /\ (word.x0 + 10) * seps[k][2] < seps[k][1]
        /\ seps[k][1] < (word.x1 + 10) * seps[k][2]

\* The separators below the centre of the token, counted from the left up to
\* the first separator that is not below it.
CentreColumn(word, seps) ==
    Cardinality({k \in 1..Len(seps) :
        \A j \in 1..k : 2 * seps[j][1] < (word.x0 + word.x1) * seps[j][2]})

TwoColumnsUsed(row, seps) ==
    \E a, b \in 1..Len(row.words) :
        CentreColumn(row.words[a], seps) # CentreColumn(row.words[b], seps)

\* The region of table_regions[k] has a table in the result.
Emitted(k) ==
    \E i \in 1..Len(all_tables) :
        /\ all_tables[i].table_index = k - 1
        /\ all_tables[i].separators = table_regions[k].separators

C13_WitnessMarked ==
    /\ pc = "done"
    /\ \E k \in 1..Len(table_regions) :
           LET info == table_regions[k]
           IN /\ info.separators # <<>>
              /\ ~info.alignment_valid
              /\ 10 * Cardinality({i \in 1..Len(info.rows) :
                        TwoColumnsUsed(info.rows[i], info.separators)})
                     >= 3 * Len(info.rows)
              /\ Emitted(k)

(***************************************************************************)
(* C14. analyze_row_spacing: fewer than 2 rows give no region; n >= 2      *)
(* ordered rows give regions that are contiguous, disjoint index ranges    *)
(* covering 0..n-1 exactly once, with a boundary between rows i and i+1    *)
(* exactly when row[i+1].y - row[i].y > 200 (200 itself does not split),   *)
(* so that there is one region more than there are spacings above 200.     *)
(***************************************************************************)
LargeSpacings(rows) ==
    {i \in 0..(Len(rows) - 2) : rows[i + 2].y - rows[i + 1].y > 200}

C14_RegionsSplitAtLargeGaps ==
    spacing_pc = "done" =>
        LET n == Len(spacing_rows)
            r == spacing_regions
        IN /\ n < 2 => r = <<>>
           /\ n >= 2 =>
                 /\ r # <<>>
                 /\ r[1].start_idx = 0
                 /\ r[Len(r)].end_idx = n - 1
                 /\ \A k \in 1..Len(r) : r[k].start_idx <= r[k].end_idx
                 /\ \A k \in 1..(Len(r) - 1) : r[k + 1].start_idx = r[k].end_idx + 1
                 /\ {r[k].end_idx : k \in 1..(Len(r) - 1)} = LargeSpacings(spacing_rows)
                 /\ Len(r) = 1 + Cardinality(LargeSpacings(spacing_rows))

\* Rows with a spacing of exactly 200 and a single spacing of 250 gave two
\* regions, the boundary at the 250.
C14_Witness ==
    /\ spacing_pc = "done"
    /\ Len(spacing_regions) = 2
    /\ \E i \in 1..(Len(spacing_rows) - 1) :
           spacing_rows[i + 1].y - spacing_rows[i].y = 200
    /\ \E i \in 1..(Len(spacing_rows) - 1) :
           /\ spacing_rows[i + 1].y - spacing_rows[i].y = 250
           /\ spacing_regions[1].end_idx = i - 1

\* One row and no row give no region.
C14_WitnessShort ==
    /\ spacing_pc = "done"
    /\ Len(spacing_rows) = 1
    /\ spacing_regions = <<>>

(***************************************************************************)
(* C15. Cell assembler with a non-empty separator list: every token of a   *)
(* row puts its text into exactly one cell of the row; the cell's index is *)
(* the number of separators strictly less than the token's x0 (a token     *)
(* whose x0 equals a separator goes to the column left of it, a token that *)
(* straddles a separator is placed by its left edge); a cell's content is  *)
(* the texts of its tokens in ascending x0 order joined by single spaces.  *)
(***************************************************************************)
\* The number of separators strictly less than x0.
SeparatorsBelow(x0, seps) ==
    Cardinality({k \in 1..Len(seps) : seps[k][1] < x0 * seps[k][2]})

\* texts joined by single spaces.
RECURSIVE SpaceJoined(_)
SpaceJoined(texts) ==
    IF texts = <<>> THEN <<>>
    ELSE IF Len(texts) = 1 THEN texts[1]
    ELSE texts[1] \o <<" ">> \o SpaceJoined(Tail(texts))

\* The content the claim gives cell c (counted from 0) of a row.
ClaimedCell(row_words, seps, c) ==
    LET mine == SelectSeq(SortedByX0(row_words),
                          LAMBDA w : SeparatorsBelow(w.x0, seps) = c)
    IN SpaceJoined([i \in 1..Len(mine) |-> mine[i].text])

C15_CellAssembler ==
    [][(pc = "tables" /\ table_regions[table_idx + 1].separators # <<>>) =>
          LET info == table_regions[table_idx + 1]
              t == all_tables'[Len(all_tables')]
          IN /\ Len(all_tables') = Len(all_tables) + 1
             /\ Len(t.dataframe) = Len(info.rows)
             /\ \A i \in 1..Len(info.rows) :
                    /\ Len(t.dataframe[i]) = Len(info.separators) + 1
                    /\ \A w \in 1..Len(info.rows[i].words) :
                           SeparatorsBelow(info.rows[i].words[w].x0, info.separators)
                               < Len(t.dataframe[i])
                    /\ \A c \in 1..Len(t.dataframe[i]) :
                           t.dataframe[i][c] =
                               ClaimedCell(info.rows[i].words, info.separators, c - 1)
      ]_vars

\* A table has been built from a region holding a token whose x0 equals the
\* separator, a token that straddles it, and a cell of two tokens.
C15_Witness ==
    /\ strategy = "enhanced"
    /\ pc = "done"
    /\ all_tables # <<>>
    /\ \E k \in 1..Len(table_regions) :
           LET info == table_regions[k]
           IN /\ Len(info.separators) = 1
              /\ Emitted(k)
              /\ \E i \in 1..Len(info.rows) : \E w \in 1..Len(info.rows[i].words) :
                     info.rows[i].words[w].x0 * info.separators[1][2] = info.separators[1][1]
              /\ \E i \in 1..Len(info.rows) : \E a, b \in 1..Len(info.rows[i].words) :
                     /\ a # b
                     /\ SeparatorsBelow(info.rows[i].words[a].x0, info.separators)
                            = SeparatorsBelow(info.rows[i].words[b].x0, info.separators)

\* ... and from a region with a token that straddles the separator.
C15_WitnessStraddle ==
    /\ strategy = "enhanced"
    /\ pc = "done"
    /\ \E k \in 1..Len(table_regions) :
           /\ Emitted(k)
           /\ \E i \in 1..Len(table_regions[k].rows) :
                  \E w \in 1..Len(table_regions[k].rows[i].words) :
                      Straddles(table_regions[k].rows[i].words[w], table_regions[k].separators)

(***************************************************************************)
(* C16. Row grouper, first token wins: after any prefix of the tokens each *)
(* row's key is the top of the first token placed in the row and never     *)
(* changes afterwards; every token of a row has |top - key| <= 3; a token  *)
(* opens a new row only if no existing key is within 3 of its top; when    *)
(* several keys are within 3 of its top it joins the row opened earliest   *)
(* in scan order, not the nearest one.                                     *)
(***************************************************************************)
\* The rows, in the order they were opened, whose key is within 3 of top.
RowsWithin3(rd, top) ==
    {i \in 1..Len(rd) : rd[i].y - top <= 3 /\ top - rd[i].y <= 3}

KeysAreFirstTops(rd) ==
    \A i \in 1..Len(rd) :
        /\ rd[i].words # <<>>
        /\ rd[i].y = rd[i].words[1].top
        /\ \A w \in 1..Len(rd[i].words) :
               rd[i].words[w].top - rd[i].y <= 3 /\ rd[i].y - rd[i].words[w].top <= 3

C16_FirstTokenWins ==
    [][/\ KeysAreFirstTops(rows_dict)
       /\ KeysAreFirstTops(rows_dict')
       /\ (row_pc = "scan" /\ scan < Len(words)) =>
              LET word == words[scan + 1]
                  near == RowsWithin3(rows_dict, word.top)
              IN /\ \A i \in 1..Len(rows_dict) :
                        /\ rows_dict'[i].y = rows_dict[i].y
                        /\ rows_dict'[i].words =
                               IF near # {} /\ i = SetMin(near)
                               THEN Append(rows_dict[i].words, word)
                               ELSE rows_dict[i].words
                 /\ near # {} => Len(rows_dict') = Len(rows_dict)
                 /\ near = {} =>
                        /\ Len(rows_dict') = Len(rows_dict) + 1
                        /\ rows_dict'[Len(rows_dict')] = [y |-> word.top, words |-> <<word>>]
      ]_vars

\* Rows keyed 0 and 4 were opened in this order, and a later token of top 3,
\* nearer to 4, is in the row keyed 0.
C16_Witness ==
    /\ Len(rows_dict) = 2
    /\ rows_dict[1].y = 0
    /\ rows_dict[2].y = 4
    /\ \E b, c \in 1..scan :
           /\ b < c
           /\ words[b].top = 4
           /\ words[c].top = 3
           /\ \A d \in 1..(c - 1) : words[d] # words[c]
           /\ \E w \in 1..Len(rows_dict[1].words) : rows_dict[1].words[w] = words[c]

(***************************************************************************)
(* The list the step-by-step extraction of Spec ends with is the list      *)
(* ExtractTables gives SpecUI.                                             *)
(***************************************************************************)
ExtractionAgrees ==
    pc = "done" => all_tables = ExtractTables(strategy, pdf)

(***************************************************************************)
(* C17. UI table navigation: after any sequence of script reruns in which  *)
(* the user clicks Previous or Next, switches the algorithm or changes the *)
(* input files, whenever a non-empty table list is displayed the stored    *)
(* table index satisfies 0 <= index <= len(tables) - 1, so that            *)
(* tables[current_idx] is a valid access.                                  *)
(* Violated: the index stored under one algorithm or file is kept when the *)
(* next run extracts a shorter list.                                       *)
(***************************************************************************)
C17_TableIndexInRange ==
    /\ tables # <<>> => (0 <= session_idx /\ session_idx <= Len(tables) - 1)
    /\ shown # "IndexError"

\* The run after a switch of the algorithm ended in the IndexError of line
\* 170: the list is not empty and the stored index is beyond its end.
C17_Witness ==
    /\ shown = "IndexError"
    /\ tables # <<>>
    /\ session_idx >= Len(tables)
    /\ session_idx < Len(ExtractTables(IF algorithm = "enhanced" THEN "legacy" ELSE "enhanced",
                                       pdf_file))

====
